---- MODULE Spec2Model ----
(***************************************************************************)
(* Model of mtable: a table-driven lexer.  src/src/table.rs holds the node *)
(* arena (Node), the pattern compiler (Table::add), the exact-match query  *)
(* (Table::get) and the maximal-munch scanner (TableIterator::next).       *)
(*                                                                         *)
(* Bytes are one-character strings, byte strings are sequences of them.    *)
(* Node ids, alphabet positions and string indices are 0-based as in the   *)
(* source.  Vectors and strings are TLA+ sequences, so the element at      *)
(* source index i of a sequence s is s[i + 1].                             *)
(***************************************************************************)
EXTENDS Integers, Sequences, FiniteSets, TLC

VARIABLES
    alphabet,   \* Table::alphabet
    nodes,      \* Table::nodes; node id n is nodes[n + 1]
    addLog,     \* the add calls made so far, with what each returned
    iterLive,   \* whether a TableIterator borrows the table
    input,      \* TableIterator::input
    index,      \* TableIterator::index
    items,      \* the items next() has returned on the live iterator
    lastCall,   \* the last get or lexer call, with what it returned
    second      \* a second TableIterator over the table: live, input, index
                \* and the items its next() has returned

vars == <<alphabet, nodes, addLog, iterLive, input, index, items, lastCall, second>>

(***************************************************************************)
(* Bounds of the model.                                                    *)
(***************************************************************************)
MaxAdds == 2
MaxKeyLen == 3
MaxInputLen == 3
MaxLexAdds == 2
MaxPulls == 4

\* Two payloads of the type T, which add clones into the nodes.
Values == {1, 2}

(***************************************************************************)
(* Option encodings.                                                       *)
(***************************************************************************)
NoChild == -1
NoValue == 0

TheAlphabet == <<"a", "b">>
NonAscii == {"#e9"}

Range(f) == {f[x] : x \in DOMAIN f}

\* Faulty variant of is_ascii: only the first byte is looked at.
IsAsciiFirstByteOnly(s) == s = <<>> \/ s[1] \notin NonAscii

IsAscii(s) == \A i \in 1..Len(s) : s[i] \notin NonAscii

\* str::find: the position of the first occurrence, or NoChild for None.
Find(alpha, ch) ==
    IF \E i \in 1..Len(alpha) : alpha[i] = ch
    THEN (CHOOSE i \in 1..Len(alpha) :
              alpha[i] = ch /\ \A j \in 1..(i - 1) : alpha[j] # ch) - 1
    ELSE NoChild

(***************************************************************************)
(* Node                                                                    *)
(***************************************************************************)
NewNode(capacity) ==
    [children |-> [p \in 1..capacity |-> NoChild], value |-> NoValue]

NodeCount(ns) == Len(ns)

NodeIds(ns) == 0..(Len(ns) - 1)

\* Faulty variant of set_children, without the check of the existing target:
\* the slot is overwritten.
SetChildrenOverwrites(ns, n, pos, child) ==
    IF pos + 1 \in DOMAIN ns[n + 1].children
    THEN [nodes |-> [ns EXCEPT ![n + 1].children[pos + 1] = child], ok |-> TRUE]
    ELSE [nodes |-> ns, ok |-> TRUE]

\* Node::set_children on node n of ns.  ok is FALSE for AmbiguousPattern,
\* which leaves the slot as it was.
SetChildren(ns, n, pos, child) ==
    IF pos + 1 \in DOMAIN ns[n + 1].children
    THEN IF ns[n + 1].children[pos + 1] # NoChild /\ ns[n + 1].children[pos + 1] # child
         THEN [nodes |-> ns, ok |-> FALSE]
         ELSE [nodes |-> [ns EXCEPT ![n + 1].children[pos + 1] = child], ok |-> TRUE]
    ELSE [nodes |-> ns, ok |-> TRUE]

GetChildren(ns, n, pos) ==
    IF pos + 1 \in DOMAIN ns[n + 1].children THEN ns[n + 1].children[pos + 1]
    ELSE NoChild

HasValue(ns, n) == ns[n + 1].value # NoValue

GetValue(ns, n) == ns[n + 1].value

\* Faulty variant of set_value, without the is_some check: the value is
\* overwritten.
SetValueOverwrite(ns, n, v) ==
    [nodes |-> [ns EXCEPT ![n + 1].value = v], ok |-> TRUE,
     current |-> NoValue, requested |-> v]

\* Node::set_value on node n of ns.  ok is FALSE for ValueAlreadyDefined.
SetValue(ns, n, v) ==
    IF HasValue(ns, n)
    THEN [nodes |-> ns, ok |-> FALSE, current |-> ns[n + 1].value, requested |-> v]
    ELSE [nodes |-> [ns EXCEPT ![n + 1].value = v], ok |-> TRUE,
          current |-> NoValue, requested |-> v]

(***************************************************************************)
(* Table: compilation                                                      *)
(***************************************************************************)
\* Faulty variant of append_node: a node is allocated also when the slot
\* holds a target, and the new node is the one returned.
AppendNodeAlwaysAllocates(alpha, ns, current, pos) ==
    LET pushed == Append(ns, NewNode(Len(alpha)))
        newChild == NodeCount(pushed) - 1
    IN  [nodes |-> SetChildren(pushed, current, pos, newChild).nodes,
         node |-> newChild]

\* Faulty variant of append_node: the allocated node is not linked to current.
AppendNodeForgetsLink(alpha, ns, current, pos) ==
    IF GetChildren(ns, current, pos) # NoChild
    THEN [nodes |-> ns, node |-> GetChildren(ns, current, pos)]
    ELSE LET pushed == Append(ns, NewNode(Len(alpha)))
         IN  [nodes |-> pushed, node |-> NodeCount(pushed) - 1]

\* Faulty variant of append_node: the slot is given the length of the arena
\* after the push, which is one past the node that was allocated.
AppendNodeLinksPastEnd(alpha, ns, current, pos) ==
    IF GetChildren(ns, current, pos) # NoChild
    THEN [nodes |-> ns, node |-> GetChildren(ns, current, pos)]
    ELSE LET pushed == Append(ns, NewNode(Len(alpha)))
         IN  [nodes |-> SetChildren(pushed, current, pos, NodeCount(pushed)).nodes,
              node |-> NodeCount(pushed) - 1]

\* Table::append_node: the node reached from current on pos, allocated when absent.
AppendNode(alpha, ns, current, pos) ==
    IF GetChildren(ns, current, pos) # NoChild
    THEN [nodes |-> ns, node |-> GetChildren(ns, current, pos)]
    ELSE LET pushed == Append(ns, NewNode(Len(alpha)))
             newChild == NodeCount(pushed) - 1
         IN  [nodes |-> SetChildren(pushed, current, pos, newChild).nodes,
              node |-> newChild]

\* The inner map of add_from_range: append_node(current, pos) for range[k..].
RECURSIVE AppendRange(_, _, _, _, _, _)
AppendRange(alpha, ns, current, range, k, acc) ==
    IF k > Len(range) THEN [nodes |-> ns, created |-> acc]
    ELSE LET r == AppendNode(alpha, ns, current, range[k])
         IN  AppendRange(alpha, r.nodes, current, range, k + 1, Append(acc, r.node))

\* Table::add_from_range over currents[k..].
RECURSIVE AddFromRangeLoop(_, _, _, _, _, _)
AddFromRangeLoop(alpha, ns, range, currents, k, acc) ==
    IF k > Len(currents) THEN [nodes |-> ns, currents |-> acc]
    ELSE LET r == AppendRange(alpha, ns, currents[k], range, 1, <<>>)
         IN  AddFromRangeLoop(alpha, r.nodes, range, currents, k + 1, acc \o r.created)

AddFromRange(alpha, ns, range, currents) ==
    AddFromRangeLoop(alpha, ns, range, currents, 1, <<>>)

\* Faulty variant of the self-loop installation: the loop leads back to the
\* root.
RECURSIVE SelfLoopRangeToRoot(_, _, _, _)
SelfLoopRangeToRoot(ns, current, range, k) ==
    IF k > Len(range) THEN ns
    ELSE SelfLoopRangeToRoot(SetChildren(ns, current, range[k], 0).nodes,
                             current, range, k + 1)

\* The self-loop installation of add for one current: every pos of range.
RECURSIVE SelfLoopRange(_, _, _, _)
SelfLoopRange(ns, current, range, k) ==
    IF k > Len(range) THEN ns
    ELSE SelfLoopRange(SetChildren(ns, current, range[k], current).nodes,
                       current, range, k + 1)

RECURSIVE SelfLoops(_, _, _, _)
SelfLoops(ns, currents, range, k) ==
    IF k > Len(currents) THEN ns
    ELSE SelfLoops(SelfLoopRange(ns, currents[k], range, 1), currents, range, k + 1)

\* Faulty variant of the class scan: the end of the pattern closes the class.
RECURSIVE ClassScanEndCloses(_, _, _, _)
ClassScanEndCloses(alpha, s, i, range) ==
    IF i >= Len(s) THEN [err |-> "None", range |-> range, next |-> i - 1]
    ELSE IF s[i + 1] = "]" THEN [err |-> "None", range |-> range, next |-> i]
    ELSE LET pos == Find(alpha, s[i + 1])
         IN  IF pos = NoChild
             THEN [err |-> "InvalidInput", ch |-> s[i + 1], range |-> range, next |-> i]
             ELSE ClassScanEndCloses(alpha, s, i + 1,
                                     IF pos \in Range(range) THEN range
                                     ELSE Append(range, pos))

\* Faulty variant of the class scan: a repeated member moves to the end of
\* the range, which keeps the members in last-seen order.
RECURSIVE ClassScanLastSeen(_, _, _, _)
ClassScanLastSeen(alpha, s, i, range) ==
    IF i >= Len(s) \/ s[i + 1] = "]"
    THEN [err |-> "None", range |-> range, next |-> i]
    ELSE LET pos == Find(alpha, s[i + 1])
         IN  IF pos = NoChild
             THEN [err |-> "InvalidInput", ch |-> s[i + 1], range |-> range, next |-> i]
             ELSE ClassScanLastSeen(alpha, s, i + 1,
                                    Append(SelectSeq(range, LAMBDA x : x # pos), pos))

\* The class scan of add: bytes from source index i up to the first ']'.
RECURSIVE ClassScan(_, _, _, _)
ClassScan(alpha, s, i, range) ==
    IF i >= Len(s) \/ s[i + 1] = "]"
    THEN [err |-> "None", range |-> range, next |-> i]
    ELSE LET pos == Find(alpha, s[i + 1])
         IN  IF pos = NoChild
             THEN [err |-> "InvalidInput", ch |-> s[i + 1], range |-> range, next |-> i]
             ELSE ClassScan(alpha, s, i + 1,
                            IF pos \in Range(range) THEN range ELSE Append(range, pos))

Ok == [kind |-> "Ok"]
InvalidString == [kind |-> "InvalidString"]
InvalidInput(c) == [kind |-> "InvalidInput", ch |-> c]
InvalidRange == [kind |-> "InvalidRange"]
ValueAlreadyDefined(c, r) ==
    [kind |-> "ValueAlreadyDefined", current |-> c, requested |-> r]

\* The source index of the first byte at or after i that is not '+'.
RECURSIVE SkipPluses(_, _)
SkipPluses(s, i) ==
    IF i < Len(s) /\ s[i + 1] = "+" THEN SkipPluses(s, i + 1) ELSE i

\* Faulty variant of the '+' look-ahead: a run of '+' after an atom is
\* consumed as one repetition operator.
AtomTailGreedyPlus(alpha, ns, s, next, range, currents) ==
    LET r == AddFromRange(alpha, ns, range, currents)
    IN  IF next < Len(s) /\ s[next + 1] = "+"
        THEN [nodes |-> SelfLoops(r.nodes, r.currents, range, 1),
              currents |-> r.currents, next |-> SkipPluses(s, next)]
        ELSE [nodes |-> r.nodes, currents |-> r.currents, next |-> next]

\* One atom and its optional '+', as the body of add's while loop does it.
AtomTail(alpha, ns, s, next, range, currents) ==
    LET r == AddFromRange(alpha, ns, range, currents)
    IN  IF next < Len(s) /\ s[next + 1] = "+"
        THEN [nodes |-> SelfLoops(r.nodes, r.currents, range, 1),
              currents |-> r.currents, next |-> next + 1]
        ELSE [nodes |-> r.nodes, currents |-> r.currents, next |-> next]

\* Faulty variant of the while loop of add, strict about conflicts: the
\* AmbiguousPattern of a self-loop that meets another target ends the add.
RECURSIVE CompileStrict(_, _, _, _, _)
CompileStrict(alpha, ns, s, i, currents) ==
    IF i >= Len(s) THEN [nodes |-> ns, currents |-> currents, result |-> Ok]
    ELSE LET isClass == s[i + 1] = "["
             c == IF isClass THEN ClassScan(alpha, s, i + 1, <<>>)
                  ELSE [err |-> IF Find(alpha, s[i + 1]) = NoChild
                                THEN "InvalidInput" ELSE "None",
                        ch |-> s[i + 1], range |-> <<Find(alpha, s[i + 1])>>,
                        next |-> i]
         IN  IF c.err = "InvalidInput"
             THEN [nodes |-> ns, currents |-> currents, result |-> InvalidInput(c.ch)]
             ELSE IF isClass /\ (c.next >= Len(s) \/ c.range = <<>>)
             THEN [nodes |-> ns, currents |-> currents, result |-> InvalidRange]
             ELSE LET r == AddFromRange(alpha, ns, c.range, currents)
                      t == AtomTail(alpha, ns, s, c.next + 1, c.range, currents)
                      conflict ==
                          /\ t.next > c.next + 1
                          /\ \E k \in 1..Len(r.currents) : \E j \in 1..Len(c.range) :
                                 ~SetChildren(r.nodes, r.currents[k], c.range[j],
                                              r.currents[k]).ok
                  IN  IF conflict
                      THEN [nodes |-> t.nodes, currents |-> t.currents,
                            result |-> [kind |-> "AmbiguousPattern"]]
                      ELSE CompileStrict(alpha, t.nodes, s, t.next, t.currents)

\* Faulty variant of the while loop of add: a '[' that is in the alphabet is
\* a literal, and opens a class only when it is not.
RECURSIVE CompileBracketLiteral(_, _, _, _, _)
CompileBracketLiteral(alpha, ns, s, i, currents) ==
    IF i >= Len(s) THEN [nodes |-> ns, currents |-> currents, result |-> Ok]
    ELSE IF s[i + 1] = "[" /\ Find(alpha, "[") = NoChild
    THEN LET c == ClassScan(alpha, s, i + 1, <<>>)
         IN  IF c.err = "InvalidInput"
             THEN [nodes |-> ns, currents |-> currents, result |-> InvalidInput(c.ch)]
             ELSE IF c.next >= Len(s) \/ c.range = <<>>
             THEN [nodes |-> ns, currents |-> currents, result |-> InvalidRange]
             ELSE LET t == AtomTail(alpha, ns, s, c.next + 1, c.range, currents)
                  IN  CompileBracketLiteral(alpha, t.nodes, s, t.next, t.currents)
    ELSE LET pos == Find(alpha, s[i + 1])
         IN  IF pos = NoChild
             THEN [nodes |-> ns, currents |-> currents, result |-> InvalidInput(s[i + 1])]
             ELSE LET t == AtomTail(alpha, ns, s, i + 1, <<pos>>, currents)
                  IN  CompileBracketLiteral(alpha, t.nodes, s, t.next, t.currents)

\* The while loop of add from source index i: the table, the final frontier
\* and the error that ended the loop, if any.
RECURSIVE Compile(_, _, _, _, _)
Compile(alpha, ns, s, i, currents) ==
    IF i >= Len(s) THEN [nodes |-> ns, currents |-> currents, result |-> Ok]
    ELSE IF s[i + 1] = "["
    THEN LET c == ClassScan(alpha, s, i + 1, <<>>)
         IN  IF c.err = "InvalidInput"
             THEN [nodes |-> ns, currents |-> currents, result |-> InvalidInput(c.ch)]
             ELSE IF c.next >= Len(s) \/ c.range = <<>>
             THEN [nodes |-> ns, currents |-> currents, result |-> InvalidRange]
             ELSE LET t == AtomTail(alpha, ns, s, c.next + 1, c.range, currents)
                  IN  Compile(alpha, t.nodes, s, t.next, t.currents)
    ELSE LET pos == Find(alpha, s[i + 1])
         IN  IF pos = NoChild
             THEN [nodes |-> ns, currents |-> currents, result |-> InvalidInput(s[i + 1])]
             ELSE LET t == AtomTail(alpha, ns, s, i + 1, <<pos>>, currents)
                  IN  Compile(alpha, t.nodes, s, t.next, t.currents)

\* set_value(v) on every node of a set (the nodes of a set are distinct, so
\* the order does not matter when none of them has a value).
RECURSIVE SetValues(_, _, _)
SetValues(ns, S, v) ==
    IF S = {} THEN ns
    ELSE LET n == CHOOSE x \in S : TRUE
         IN  SetValues(SetValue(ns, n, v).nodes, S \ {n}, v)

\* The value installation of add: unique_currents is a HashSet, whose
\* iteration order is unspecified.  When no node of the frontier has a value
\* every set_value succeeds.  Otherwise the loop returns the error of the
\* first node f it visits whose set_value fails, after set_value(v) on the
\* nodes visited before f, which may be any subset S of the other nodes.
InstallOutcomes(ns, currents, v) ==
    LET unique == Range(currents)
        valued == {n \in unique : ~SetValue(ns, n, v).ok}
    IN  IF valued = {}
        THEN {[nodes |-> SetValues(ns, unique, v), result |-> Ok]}
        ELSE UNION {{[nodes |-> SetValues(ns, S, v),
                      result |-> ValueAlreadyDefined(SetValue(ns, f, v).current,
                                                     SetValue(ns, f, v).requested)] :
                         S \in SUBSET (unique \ valued)} : f \in valued}

\* Faulty variant of add: the value is installed on the frontier reached so
\* far also when the while loop ended with an error.
AddOutcomesInstallsOnError(alpha, ns, s, v) ==
    IF ~IsAscii(s)
    THEN {[nodes |-> ns, result |-> InvalidString, frontier |-> {}]}
    ELSE LET c == Compile(alpha, ns, s, 0, <<0>>)
         IN  {[nodes |-> o.nodes,
               result |-> IF c.result # Ok THEN c.result ELSE o.result,
               frontier |-> IF c.result # Ok THEN {} ELSE Range(c.currents)] :
                  o \in InstallOutcomes(c.nodes, c.currents, v)}

\* Faulty variant of add: an add that fails while it compiles restores the
\* nodes it started from.
AddOutcomesRollsBack(alpha, ns, s, v) ==
    IF ~IsAscii(s)
    THEN {[nodes |-> ns, result |-> InvalidString, frontier |-> {}]}
    ELSE LET c == Compile(alpha, ns, s, 0, <<0>>)
         IN  IF c.result # Ok
             THEN {[nodes |-> ns, result |-> c.result, frontier |-> {}]}
             ELSE {[nodes |-> o.nodes, result |-> o.result,
                    frontier |-> Range(c.currents)] :
                       o \in InstallOutcomes(c.nodes, c.currents, v)}

\* Table::add: every outcome (table, result, final frontier) of add(s, v).
AddOutcomes(alpha, ns, s, v) ==
    IF ~IsAscii(s)
    THEN {[nodes |-> ns, result |-> InvalidString, frontier |-> {}]}
    ELSE LET c == Compile(alpha, ns, s, 0, <<0>>)
         IN  IF c.result # Ok
             THEN {[nodes |-> c.nodes, result |-> c.result, frontier |-> {}]}
             ELSE {[nodes |-> o.nodes, result |-> o.result,
                    frontier |-> Range(c.currents)] :
                       o \in InstallOutcomes(c.nodes, c.currents, v)}

(***************************************************************************)
(* Table: get                                                              *)
(***************************************************************************)
None == [kind |-> "None"]
Some(v) == [kind |-> "Some", value |-> v]

Opt(v) == IF v = NoValue THEN None ELSE Some(v)

\* Faulty variant of the byte loop of get: a missing transition answers with
\* the value of the node reached so far.
RECURSIVE GetWalkPrefix(_, _, _, _, _)
GetWalkPrefix(alpha, ns, s, i, current) ==
    IF i >= Len(s) THEN Opt(GetValue(ns, current))
    ELSE LET pos == Find(alpha, s[i + 1])
         IN  IF pos = NoChild THEN InvalidInput(s[i + 1])
             ELSE IF GetChildren(ns, current, pos) # NoChild
             THEN GetWalkPrefix(alpha, ns, s, i + 1, GetChildren(ns, current, pos))
             ELSE Opt(GetValue(ns, current))

\* Faulty variant of the byte loop of get: the walk stops at the first node
\* that has a value, with key bytes left over.
RECURSIVE GetWalkStopsAtValue(_, _, _, _, _)
GetWalkStopsAtValue(alpha, ns, s, i, current) ==
    IF i >= Len(s) \/ HasValue(ns, current) THEN Opt(GetValue(ns, current))
    ELSE LET pos == Find(alpha, s[i + 1])
         IN  IF pos = NoChild THEN InvalidInput(s[i + 1])
             ELSE IF GetChildren(ns, current, pos) # NoChild
             THEN GetWalkStopsAtValue(alpha, ns, s, i + 1, GetChildren(ns, current, pos))
             ELSE None

\* The byte loop of get from source index i at node current.
RECURSIVE GetWalk(_, _, _, _, _)
GetWalk(alpha, ns, s, i, current) ==
    IF i >= Len(s) THEN Opt(GetValue(ns, current))
    ELSE LET pos == Find(alpha, s[i + 1])
         IN  IF pos = NoChild THEN InvalidInput(s[i + 1])
             ELSE IF GetChildren(ns, current, pos) # NoChild
             THEN GetWalk(alpha, ns, s, i + 1, GetChildren(ns, current, pos))
             ELSE None

\* Table::get
Get(alpha, ns, s) ==
    IF ~IsAscii(s) THEN InvalidString ELSE GetWalk(alpha, ns, s, 0, 0)

(***************************************************************************)
(* TableIterator                                                           *)
(***************************************************************************)
EndOfIteration == [kind |-> "EndOfIteration"]
Token(v, slice) == [kind |-> "Token", value |-> v, slice |-> slice]
UnknownChar(c, p) == [kind |-> "UnknownChar", ch |-> c, position |-> p]
UnexpectedEnd(p) == [kind |-> "UnexpectedEnd", position |-> p]

\* Faulty variants of the pop: the shortest candidate is emitted; the cursor
\* resumes at the dead end; UnexpectedEnd reports the dead end.
PopMatchShortest(inp, idx, progress, lastMatch) ==
    IF lastMatch # <<>>
    THEN [item |-> Token(lastMatch[1][2], SubSeq(inp, idx + 1, lastMatch[1][1] + 1)),
          index |-> lastMatch[1][1] + 1,
          steps |-> progress - idx, matches |-> lastMatch]
    ELSE [item |-> UnexpectedEnd(idx), index |-> idx,
                                       steps |-> progress - idx, matches |-> lastMatch]

PopMatchResumeAtDeadEnd(inp, idx, progress, lastMatch) ==
    IF lastMatch # <<>>
    THEN LET top == lastMatch[Len(lastMatch)]
         IN  [item |-> Token(top[2], SubSeq(inp, idx + 1, top[1] + 1)),
              index |-> progress,
              steps |-> progress - idx, matches |-> lastMatch]
    ELSE [item |-> UnexpectedEnd(idx), index |-> idx,
                                       steps |-> progress - idx, matches |-> lastMatch]

PopMatchDeadEndPosition(inp, idx, progress, lastMatch) ==
    IF lastMatch # <<>>
    THEN LET top == lastMatch[Len(lastMatch)]
         IN  [item |-> Token(top[2], SubSeq(inp, idx + 1, top[1] + 1)),
              index |-> top[1] + 1,
              steps |-> progress - idx, matches |-> lastMatch]
    ELSE [item |-> UnexpectedEnd(progress), index |-> idx,
                                            steps |-> progress - idx, matches |-> lastMatch]

\* Faulty variant of the pop: the token is emitted and the cursor stays.
PopMatchKeepsCursor(inp, idx, progress, lastMatch) ==
    IF lastMatch # <<>>
    THEN LET top == lastMatch[Len(lastMatch)]
         IN  [item |-> Token(top[2], SubSeq(inp, idx + 1, top[1] + 1)),
              index |-> idx,
              steps |-> progress - idx, matches |-> lastMatch]
    ELSE [item |-> UnexpectedEnd(idx), index |-> idx,
          steps |-> progress - idx, matches |-> lastMatch]

\* Faulty variant of the pop: the slice of the last candidate is emitted
\* with the value of the first.
PopMatchFirstValue(inp, idx, progress, lastMatch) ==
    IF lastMatch # <<>>
    THEN LET top == lastMatch[Len(lastMatch)]
         IN  [item |-> Token(lastMatch[1][2], SubSeq(inp, idx + 1, top[1] + 1)),
              index |-> top[1] + 1,
              steps |-> progress - idx, matches |-> lastMatch]
    ELSE [item |-> UnexpectedEnd(idx), index |-> idx,
                                       steps |-> progress - idx, matches |-> lastMatch]

\* The two `match last_match.pop()` of next, reached with the walk at
\* progress: the last candidate pushed is emitted and the cursor moves past
\* it, or UnexpectedEnd is returned at the cursor.
PopMatch(inp, idx, progress, lastMatch) ==
    IF lastMatch # <<>>
    THEN LET top == lastMatch[Len(lastMatch)]
         IN  [item |-> Token(top[2], SubSeq(inp, idx + 1, top[1] + 1)),
              index |-> top[1] + 1,
              steps |-> progress - idx, matches |-> lastMatch]
    ELSE [item |-> UnexpectedEnd(idx), index |-> idx,
                                       steps |-> progress - idx, matches |-> lastMatch]

\* Faulty variants of the unknown-byte arm: the pending candidate is emitted
\* first; the cursor skips the unknown byte.
UnknownByteEmitsPending(inp, idx, progress, lastMatch) ==
    IF lastMatch # <<>> THEN PopMatch(inp, idx, progress, lastMatch)
    ELSE [item |-> UnknownChar(inp[progress + 1], progress), index |-> idx,
                                                             steps |-> progress - idx, matches |-> lastMatch]

UnknownByteSkips(inp, idx, progress, lastMatch) ==
    [item |-> UnknownChar(inp[progress + 1], progress), index |-> progress + 1,
                                                        steps |-> progress - idx, matches |-> lastMatch]

\* The None arm of the alphabet lookup of next: the byte at progress is not
\* in the alphabet; the candidates and the cursor are left alone.
UnknownByte(inp, idx, progress, lastMatch) ==
    [item |-> UnknownChar(inp[progress + 1], progress), index |-> idx,
                                                        steps |-> progress - idx, matches |-> lastMatch]

\* Faulty variant of the loop of next: a new candidate goes to the front of
\* last_match.
RECURSIVE ScanLoopPrepends(_, _, _, _, _, _, _)
ScanLoopPrepends(alpha, ns, inp, idx, nodeId, progress, lastMatch) ==
    IF progress >= Len(inp) THEN PopMatch(inp, idx, progress, lastMatch)
    ELSE LET pos == Find(alpha, inp[progress + 1])
         IN  IF pos = NoChild THEN UnknownByte(inp, idx, progress, lastMatch)
             ELSE LET next == GetChildren(ns, nodeId, pos)
                  IN  IF next # NoChild
                      THEN ScanLoopPrepends(alpha, ns, inp, idx, next, progress + 1,
                                            IF HasValue(ns, next)
                                            THEN <<<<progress, GetValue(ns, next)>>>>
                                                     \o lastMatch
                                            ELSE lastMatch)
                      ELSE PopMatch(inp, idx, progress, lastMatch)

\* The loop of next: the walk at node nodeId with progress bytes reached.
RECURSIVE ScanLoop(_, _, _, _, _, _, _)
ScanLoop(alpha, ns, inp, idx, nodeId, progress, lastMatch) ==
    IF progress >= Len(inp) THEN PopMatch(inp, idx, progress, lastMatch)
    ELSE LET pos == Find(alpha, inp[progress + 1])
         IN  IF pos = NoChild THEN UnknownByte(inp, idx, progress, lastMatch)
             ELSE LET next == GetChildren(ns, nodeId, pos)
                  IN  IF next # NoChild
                      THEN ScanLoop(alpha, ns, inp, idx, next, progress + 1,
                                    IF HasValue(ns, next)
                                    THEN Append(lastMatch, <<progress, GetValue(ns, next)>>)
                                    ELSE lastMatch)
                      ELSE PopMatch(inp, idx, progress, lastMatch)

\* Faulty variant of next: the end check is off by one.
IterNextEndsEarly(alpha, ns, inp, idx) ==
    IF idx + 1 >= Len(inp) THEN [item |-> EndOfIteration, index |-> idx, steps |-> 0, matches |-> <<>>]
    ELSE ScanLoop(alpha, ns, inp, idx, 0, idx, <<>>)

\* Faulty variant of next: the value of the root is a candidate before any
\* byte is read.
IterNextRootCandidate(alpha, ns, inp, idx) ==
    IF idx >= Len(inp) THEN [item |-> EndOfIteration, index |-> idx, steps |-> 0, matches |-> <<>>]
    ELSE ScanLoop(alpha, ns, inp, idx, 0, idx,
                  IF HasValue(ns, 0) THEN <<<<idx - 1, GetValue(ns, 0)>>>> ELSE <<>>)

\* TableIterator::next: the item returned, the cursor after it, the number
\* of transitions the walk followed, and last_match as it was when the walk
\* stopped, before the pop.
IterNext(alpha, ns, inp, idx) ==
    IF idx >= Len(inp) THEN [item |-> EndOfIteration, index |-> idx, steps |-> 0, matches |-> <<>>]
    ELSE ScanLoop(alpha, ns, inp, idx, 0, idx, <<>>)

(***************************************************************************)
(* Inputs                                                                  *)
(***************************************************************************)
RECURSIVE SeqsUpTo(_, _)
SeqsUpTo(S, n) ==
    IF n = 0 THEN {<<>>}
    ELSE LET shorter == SeqsUpTo(S, n - 1)
         IN  shorter \cup {Append(s, x) : s \in shorter, x \in S}

\* Well-formed atoms over the alphabet: literals, a class, and their '+'.
Atoms ==
    { <<"a">>, <<"b">>, <<"a", "+">>, <<"[", "a", "b", "]">>,
      <<"[", "a", "b", "]", "+">> }

\* Patterns add rejects: a non-ASCII string, bytes outside the alphabet, an
\* empty class and an unterminated class, alone or after a first atom, with
\* bytes of the alphabet or not.
IllFormedPatterns ==
    { <<"#e9">>, <<"x">>, <<"a", "x">>, <<"[", "]">>, <<"a", "+", "[", "a">>,
      <<"[", "x">>, <<"[", "]", "+">> }

\* The patterns given to add: the empty pattern, one atom, two atoms, and
\* the ill-formed ones.
Patterns ==
    {<<>>} \cup Atoms \cup {p \o q : p \in Atoms, q \in Atoms}
           \cup IllFormedPatterns

\* The patterns of the tables that are scanned and queried.
LexPatterns ==
    { <<>>, <<"[", "a", "b", "]">>, <<"a", "b", "b">>, <<"a", "+">>,
      <<"b", "+", "a">> }

Keys == SeqsUpTo(Range(TheAlphabet), MaxKeyLen)

Inputs == SeqsUpTo(Range(TheAlphabet) \cup {"@"}, MaxInputLen)

\* The inputs two iterators scan side by side.
SharedInputs == { <<"a", "a", "b">>, <<"a", "b", "@">>, <<"b", "a">> }

\* The keys given to get: the keys over the alphabet, keys with a byte
\* outside the alphabet first, last or in the middle, and two keys that are
\* not ASCII.
GetKeys ==
    Keys \cup { <<"x">>, <<"a", "x">>, <<"b", "x">>, <<"x", "a">>,
                <<"a", "b", "x">>, <<"a", "x", "b">>,
                <<"#e9">>, <<"a", "#e9">> }

\* Strings given to add, get and lexer alike: ASCII ones, and ones that are
\* not ASCII with a well-formed atom, a byte outside the alphabet or an open
\* class before the non-ASCII byte.
Strings ==
    { <<>>, <<"a">>, <<"a", "b">>, <<"a", "+">>, <<"x">>,
      <<"#e9">>, <<"a", "#e9">>, <<"x", "#e9">>, <<"[", "#e9">> }

\* The alphabets of the tables whose patterns use the bytes of the pattern
\* syntax: one that holds '+', '[', ']' and '*', and one that holds none.
SyntaxAlphabets == { <<"a", "+", "[", "]", "*">>, <<"a", "b">> }

\* Patterns in which '+', '*', '[' and ']' stand at the start, after an
\* atom, after an operator and inside a class, and classes that repeat
\* members.
SyntaxPatterns ==
    { <<"a", "+", "+">>, <<"+", "a">>, <<"+", "+">>, <<"+">>, <<"a", "+">>,
      <<"a", "*">>, <<"a", "*", "+">>, <<"[", "a", "]", "+", "+">>,
      <<"[", "a", "]">>, <<"[", "[", "a", "]">>, <<"[", "a", "+", "]">>,
      <<"[", "+", "]", "+">>, <<"[", "a", "]", "]">>, <<"]">>, <<"[", "a">>,
      <<"[", "]">>, <<"[", "[", "a", "b", "]", "]">>, <<"[", "a", "a", "a", "]">>,
      <<"[", "a", "b", "a", "]">>, <<"[", "a", "a", "]", "+">>, <<"[", "a", "b", "]">>,
      <<"[", "a", "]", "[", "a", "a", "]">> }

(***************************************************************************)
(* State machine                                                           *)
(***************************************************************************)
NoIterator == [live |-> FALSE, input |-> <<>>, index |-> 0, items |-> <<>>]

\* Table::new(alphabet); no iterator exists.
Init ==
    /\ alphabet = TheAlphabet
    /\ nodes = <<NewNode(Len(TheAlphabet))>>
    /\ addLog = <<>>
    /\ iterLive = FALSE
    /\ input = <<>>
    /\ index = 0
    /\ items = <<>>
    /\ lastCall = [op |-> "none", arg |-> <<>>, result |-> None]
    /\ second = NoIterator

\* table.add(pat, v).  add takes &mut self: no iterator borrows the table.
Add(pat, v, max) ==
    /\ ~iterLive
    /\ ~second.live
    /\ Len(addLog) < max
    /\ \E o \in AddOutcomes(alphabet, nodes, pat, v) :
          /\ nodes' = o.nodes
          /\ addLog' = Append(addLog, [pat |-> pat, value |-> v,
                                       result |-> o.result, frontier |-> o.frontier])
    /\ UNCHANGED <<alphabet, iterLive, input, index, items, lastCall, second>>

AddCall == \E pat \in Patterns, v \in Values : Add(pat, v, MaxAdds)

LexAddCall == \E pat \in LexPatterns, v \in Values : Add(pat, v, MaxLexAdds)

AddString == \E pat \in Strings, v \in Values : Add(pat, v, MaxLexAdds)

\* table.get(s).  get takes &self: the table is left alone.
GetOp(s) ==
    /\ lastCall' = [op |-> "get", arg |-> s, result |-> Get(alphabet, nodes, s)]
    /\ UNCHANGED <<alphabet, nodes, addLog, iterLive, input, index, items, second>>

GetCall == \E key \in GetKeys : GetOp(key)

GetString == \E s \in Strings : GetOp(s)

\* table.lexer(s): InvalidString for a string that is not ASCII, and a new
\* iterator at cursor 0 otherwise.
LexerOp(s) ==
    /\ ~iterLive
    /\ IF ~IsAscii(s)
       THEN /\ lastCall' = [op |-> "lexer", arg |-> s, result |-> InvalidString]
            /\ UNCHANGED <<iterLive, input, index, items>>
       ELSE /\ lastCall' = [op |-> "lexer", arg |-> s, result |-> Ok]
            /\ iterLive' = TRUE
            /\ input' = s
            /\ index' = 0
            /\ items' = <<>>
    /\ UNCHANGED <<alphabet, nodes, addLog, second>>

Lexer == \E s \in Inputs : LexerOp(s)

LexerString == \E s \in Strings : LexerOp(s)

\* iterator.next(): one pull, whose item the caller collects.
Pull ==
    /\ iterLive
    /\ Len(items) < MaxPulls
    /\ LET r == IterNext(alphabet, nodes, input, index)
       IN  /\ index' = r.index
           /\ items' = Append(items, r.item)
    /\ UNCHANGED <<alphabet, nodes, addLog, iterLive, input, lastCall, second>>

\* The iterator is dropped and its borrow of the table ends.
DropIterator ==
    /\ iterLive
    /\ iterLive' = FALSE
    /\ input' = <<>>
    /\ index' = 0
    /\ items' = <<>>
    /\ UNCHANGED <<alphabet, nodes, addLog, lastCall, second>>

LexerShared == \E s \in SharedInputs : LexerOp(s)

\* table.lexer(s) for the second iterator; lexer takes &self, so the first
\* iterator may be live.
LexerSecond ==
    /\ ~second.live
    /\ \E s \in SharedInputs :
          IF ~IsAscii(s)
          THEN /\ lastCall' = [op |-> "lexer", arg |-> s, result |-> InvalidString]
               /\ UNCHANGED second
          ELSE /\ lastCall' = [op |-> "lexer", arg |-> s, result |-> Ok]
               /\ second' = [live |-> TRUE, input |-> s, index |-> 0, items |-> <<>>]
    /\ UNCHANGED <<alphabet, nodes, addLog, iterLive, input, index, items>>

\* Faulty variants of next() on the second iterator: the walk starts at the
\* cursor of the first iterator; the pull moves the cursor of the first
\* iterator as well.
PullSecondSharedCursor ==
    /\ second.live
    /\ Len(second.items) < MaxPulls
    /\ LET r == IterNext(alphabet, nodes, second.input, index)
       IN  second' = [second EXCEPT !.index = r.index,
                                    !.items = Append(second.items, r.item)]
    /\ UNCHANGED <<alphabet, nodes, addLog, iterLive, input, index, items, lastCall>>

PullSecondMovesFirstCursor ==
    /\ second.live
    /\ Len(second.items) < MaxPulls
    /\ LET r == IterNext(alphabet, nodes, second.input, second.index)
       IN  /\ second' = [second EXCEPT !.index = r.index,
                                       !.items = Append(second.items, r.item)]
           /\ index' = IF iterLive THEN r.index ELSE index
    /\ UNCHANGED <<alphabet, nodes, addLog, iterLive, input, items, lastCall>>

\* next() on the second iterator.
PullSecond ==
    /\ second.live
    /\ Len(second.items) < MaxPulls
    /\ LET r == IterNext(alphabet, nodes, second.input, second.index)
       IN  second' = [second EXCEPT !.index = r.index,
                                    !.items = Append(second.items, r.item)]
    /\ UNCHANGED <<alphabet, nodes, addLog, iterLive, input, index, items, lastCall>>

\* The second iterator is dropped.
DropSecond ==
    /\ second.live
    /\ second' = NoIterator
    /\ UNCHANGED <<alphabet, nodes, addLog, iterLive, input, index, items, lastCall>>

\* Table::new(alphabet) for one of the alphabets with syntax bytes.
InitSyntax ==
    /\ alphabet \in SyntaxAlphabets
    /\ nodes = <<NewNode(Len(alphabet))>>
    /\ addLog = <<>>
    /\ iterLive = FALSE
    /\ input = <<>>
    /\ index = 0
    /\ items = <<>>
    /\ lastCall = [op |-> "none", arg |-> <<>>, result |-> None]
    /\ second = NoIterator

SyntaxAddCall == \E pat \in SyntaxPatterns, v \in Values : Add(pat, v, MaxLexAdds)

Next == AddCall

Spec == Init /\ [][Next]_vars

NextLex == LexAddCall \/ Lexer \/ Pull \/ DropIterator

SpecLex == Init /\ [][NextLex]_vars

NextGet == LexAddCall \/ GetCall

SpecGet == Init /\ [][NextGet]_vars

NextStrings == AddString \/ GetString \/ LexerString \/ DropIterator

SpecStrings == Init /\ [][NextStrings]_vars

NextTwo ==
    \/ LexAddCall
    \/ LexerShared \/ Pull \/ DropIterator
    \/ LexerSecond \/ PullSecond \/ DropSecond

SpecTwo == Init /\ [][NextTwo]_vars

NextSyntax == SyntaxAddCall

SpecSyntax == InitSyntax /\ [][NextSyntax]_vars

(***************************************************************************)
(* The pattern language, read off the grammar of the pattern mini-language *)
(* and not off the compiler: pattern ::= atom*, atom ::= (literal | class) *)
(* ['+'], class ::= '[' byte+ ']'.  An atom is a set of bytes and a flag.  *)
(***************************************************************************)
\* The source index of the first ']' at or after i, or Len(s) when none.
RECURSIVE ClassEnd(_, _)
ClassEnd(s, i) ==
    IF i >= Len(s) \/ s[i + 1] = "]" THEN i ELSE ClassEnd(s, i + 1)

IllFormedAtom == [wellFormed |-> FALSE, bytes |-> {}, plus |-> FALSE]

\* The atoms of s from source index i; IllFormedAtom ends an ill-formed s.
RECURSIVE PatternAtoms(_, _)
PatternAtoms(s, i) ==
    IF i >= Len(s) THEN <<>>
    ELSE LET isClass == s[i + 1] = "["
             close == ClassEnd(s, i + 1)
             bytes == IF isClass THEN {s[k + 1] : k \in (i + 1)..(close - 1)}
                      ELSE {s[i + 1]}
             after == IF isClass THEN close + 1 ELSE i + 1
             plus == after < Len(s) /\ s[after + 1] = "+"
         IN  IF (isClass /\ (close >= Len(s) \/ bytes = {}))
                \/ ~(bytes \subseteq Range(TheAlphabet))
             THEN <<IllFormedAtom>>
             ELSE <<[wellFormed |-> TRUE, bytes |-> bytes, plus |-> plus]>>
                  \o PatternAtoms(s, IF plus THEN after + 1 ELSE after)

WellFormed(s) ==
    /\ IsAscii(s)
    /\ \A k \in DOMAIN PatternAtoms(s, 0) : PatternAtoms(s, 0)[k].wellFormed

\* Whether key[i..] is in the language of atoms[k..] (both 1-based here).
RECURSIVE AtomsAccept(_, _, _, _)
AtomsAccept(atoms, k, key, i) ==
    IF k > Len(atoms) THEN i > Len(key)
    ELSE /\ i <= Len(key)
         /\ key[i] \in atoms[k].bytes
         /\ \/ AtomsAccept(atoms, k + 1, key, i + 1)
            \/ atoms[k].plus /\ AtomsAccept(atoms, k, key, i + 1)

InLanguage(pat, key) ==
    WellFormed(pat) /\ AtomsAccept(PatternAtoms(pat, 0), 1, key, 1)

OkAdds == {k \in DOMAIN addLog : addLog[k].result = Ok}

(***************************************************************************)
(* Claims                                                                  *)
(***************************************************************************)

\* C1: after any sequence of adds, every key in the language of a pattern
\* whose add(pat, v) returned Ok is answered Some(v) by get, whatever was
\* added before or after it.
C1_GetReturnsAddedValue ==
    \A k \in OkAdds : \A key \in Keys :
        InLanguage(addLog[k].pat, key)
            => Get(alphabet, nodes, key) = Some(addLog[k].value)

\* Every add so far returned Ok, and get answers None for every key over the
\* alphabet that is in the language of none of the added patterns.
AllAddsOk == \A k \in DOMAIN addLog : addLog[k].result = Ok

RejectedKeysGetNone ==
    \A key \in Keys :
        (\A k \in DOMAIN addLog : ~InLanguage(addLog[k].pat, key))
            => Get(alphabet, nodes, key) = None

\* C2 as stated: after any sequence of successful adds, get answers None for
\* every key over the alphabet that is in the language of none of the added
\* patterns.
C2_RejectedKeysGetNone_Original == AllAddsOk => RejectedKeysGetNone

HasPlus(pat) == \E k \in DOMAIN PatternAtoms(pat, 0) : PatternAtoms(pat, 0)[k].plus

\* No atom of pat shares a byte with a '+' atom directly before it.
NoAbsorbedAtom(pat) ==
    LET atoms == PatternAtoms(pat, 0)
    IN  \A k \in 1..(Len(atoms) - 1) :
            atoms[k].plus => atoms[k].bytes \cap atoms[k + 1].bytes = {}

\* C2: after successful adds of patterns without '+', or after one successful
\* add to a fresh table of a pattern none of whose atoms shares a byte with a
\* '+' atom directly before it, get answers None for every key over the
\* alphabet that is in the language of none of the added patterns.
C2_RejectedKeysGetNone ==
    (/\ AllAddsOk
     /\ \/ \A k \in DOMAIN addLog : ~HasPlus(addLog[k].pat)
        \/ Len(addLog) = 1 /\ NoAbsorbedAtom(addLog[1].pat))
        => RejectedKeysGetNone

\* C2 witness: two patterns without '+' were added, get accepts a key and
\* answers None for that key extended by one byte.
C2_Witness ==
    /\ Len(addLog) = 2
    /\ AllAddsOk
    /\ \A k \in DOMAIN addLog : ~HasPlus(addLog[k].pat)
    /\ \E key \in Keys :
          /\ Len(key) = 2
          /\ \A k \in DOMAIN addLog : ~InLanguage(addLog[k].pat, key)
          /\ Get(alphabet, nodes, SubSeq(key, 1, 1)).kind = "Some"
          /\ Get(alphabet, nodes, key) = None

\* A step that is one add call, and the log entry of that call.
AddStep == Len(addLog') = Len(addLog) + 1

LastAdd == addLog[Len(addLog)]

ValuedNodes(ns) == {n \in NodeIds(ns) : HasValue(ns, n)}

\* C9: a node that has a value keeps exactly that value across every add,
\* and an add whose final frontier holds a node that already had a value
\* returns ValueAlreadyDefined with that node's value as current and the
\* value of the call as requested.
C9_ValueWrittenOnce ==
    [][ /\ \A n \in ValuedNodes(nodes) :
              n \in NodeIds(nodes') /\ GetValue(nodes', n) = GetValue(nodes, n)
        /\ AddStep =>
              LET e == addLog'[Len(addLog')]
                  had == e.frontier \cap ValuedNodes(nodes)
              IN  had # {} =>
                      /\ e.result.kind = "ValueAlreadyDefined"
                      /\ e.result.current \in {GetValue(nodes, n) : n \in had}
                      /\ e.result.requested = e.value ]_vars

\* C9 witness: an add with another value failed with ValueAlreadyDefined
\* after it had set its value on a node of its frontier, and the node it
\* failed on still holds the value of the earlier add.
C9_Witness ==
    /\ Len(addLog) = 2
    /\ addLog[1].result = Ok
    /\ LastAdd.result = ValueAlreadyDefined(addLog[1].value, LastAdd.value)
    /\ LastAdd.value # addLog[1].value
    /\ \E n \in LastAdd.frontier : GetValue(nodes, n) = addLog[1].value
    /\ \E n \in LastAdd.frontier : GetValue(nodes, n) = LastAdd.value

\* C10: an add of a pattern some of whose strings the table already accepts
\* returns ValueAlreadyDefined.
C10_OverlapDetected ==
    [][ AddStep =>
            LET e == addLog'[Len(addLog')]
            IN  (\E key \in Keys :
                     /\ InLanguage(e.pat, key)
                     /\ Get(alphabet, nodes, key).kind = "Some")
                    => e.result.kind = "ValueAlreadyDefined" ]_vars

(***************************************************************************)
(* The walk of a pull, read off the transitions: the node reached from the *)
(* root by the len bytes of inp that start at source index i, or NoChild   *)
(* when one of them is not in the alphabet or has no transition.           *)
(***************************************************************************)
RECURSIVE ReachedNode(_, _, _, _, _)
ReachedNode(alpha, ns, inp, i, len) ==
    IF len = 0 THEN 0
    ELSE LET prev == ReachedNode(alpha, ns, inp, i, len - 1)
             pos == Find(alpha, inp[i + len])
         IN  IF prev = NoChild \/ pos = NoChild THEN NoChild
             ELSE GetChildren(ns, prev, pos)

\* The lengths of the prefixes of input[i..] that end in an accepting node.
AcceptedLengths(i) ==
    {l \in 1..(Len(input) - i) :
        /\ ReachedNode(alphabet, nodes, input, i, l) # NoChild
        /\ HasValue(nodes, ReachedNode(alphabet, nodes, input, i, l))}

Longest(L) == CHOOSE l \in L : \A m \in L : m <= l

\* The walk from i reaches a byte that is not in the alphabet.
ReachesUnknownByte(i) ==
    \E p \in i..(Len(input) - 1) :
        /\ ReachedNode(alphabet, nodes, input, i, p - i) # NoChild
        /\ Find(alphabet, input[p + 1]) = NoChild

\* A step that is one pull with bytes left to scan, and the item it returned.
PullStep == iterLive /\ Len(items') = Len(items) + 1

ScanStep == PullStep /\ index < Len(input)

Pulled == items'[Len(items')]

LongestToken(i) ==
    LET l == Longest(AcceptedLengths(i))
    IN  Token(GetValue(nodes, ReachedNode(alphabet, nodes, input, i, l)),
              SubSeq(input, i + 1, i + l))

IsError(item) == item.kind \in {"UnknownChar", "UnexpectedEnd"}

\* C3 as stated: a pull that starts where the automaton accepts prefixes of
\* lengths l1 < ... < lk emits the token of length lk with the value of the
\* node that prefix reaches.
C3_MaximalMunch_Original ==
    [][ (ScanStep /\ AcceptedLengths(index) # {})
            => Pulled = LongestToken(index) ]_vars

\* C3: a pull that starts where the automaton accepts prefixes of lengths
\* l1 < ... < lk, and whose walk reaches no byte outside the alphabet, emits
\* the token of length lk with the value of the node that prefix reaches.
C3_MaximalMunch ==
    [][ (ScanStep /\ AcceptedLengths(index) # {} /\ ~ReachesUnknownByte(index))
            => Pulled = LongestToken(index) ]_vars

\* C3 witness: a pull emitted the longer of two accepted prefixes.
C3_Witness ==
    /\ iterLive
    /\ Len(items) = 1
    /\ items[1].kind = "Token"
    /\ Len(items[1].slice) = 2
    /\ index = 2
    /\ HasValue(nodes, ReachedNode(alphabet, nodes, input, 0, 1))
    /\ GetValue(nodes, ReachedNode(alphabet, nodes, input, 0, 1)) # items[1].value

RECURSIVE ConcatSlices(_, _)
ConcatSlices(its, n) ==
    IF n = 0 THEN <<>> ELSE ConcatSlices(its, n - 1) \o its[n].slice

\* C4: when the pulls up to the first None returned only tokens, the token
\* slices concatenated in order are the input, and None is returned only with
\* the cursor at the end of the input.
C4_TotalConsumption ==
    \A n \in DOMAIN items :
        items[n] = EndOfIteration =>
            /\ index = Len(input)
            /\ (\A k \in 1..(n - 1) : items[k].kind = "Token")
                   => ConcatSlices(items, n - 1) = input

\* C4 witness: three tokens, then None.
C4_Witness ==
    /\ Len(items) = 4
    /\ \A k \in 1..3 : items[k].kind = "Token"
    /\ items[4] = EndOfIteration

\* C5: the first pull starts at index 0, and a pull that emits a token emits
\* the bytes from its start cursor on and leaves the cursor right after them,
\* where the next pull starts.
C5_TokenContiguity ==
    [][ /\ (~iterLive /\ iterLive') => index' = 0
        /\ (PullStep /\ Pulled.kind = "Token") =>
              /\ index' > index
              /\ index' <= Len(input)
              /\ Pulled.slice = SubSeq(input, index + 1, index') ]_vars

\* C5 witness: the walk of the first pull went two bytes past the token it
\* emitted, and the second pull emitted the token that starts right after it.
C5_Witness ==
    /\ Len(items) = 2
    /\ Len(input) = 3
    /\ items[1].kind = "Token" /\ Len(items[1].slice) = 1
    /\ ReachedNode(alphabet, nodes, input, 0, 2) # NoChild
    /\ items[2].kind = "Token"
    /\ items[2].slice = SubSeq(input, 2, 2)
    /\ index = 2

\* C6: a pull whose walk reaches a byte b at index p that is not in the
\* alphabet returns UnknownChar{b, p} and leaves the cursor where it was,
\* also when accepting prefixes were met on the way.
C6_FailFastUnknownByte ==
    [][ ScanStep =>
            \A p \in index..(Len(input) - 1) :
                (/\ ReachedNode(alphabet, nodes, input, index, p - index) # NoChild
                 /\ Find(alphabet, input[p + 1]) = NoChild)
                    => /\ Pulled = UnknownChar(input[p + 1], p)
                       /\ index' = index ]_vars

\* C6 witness: UnknownChar was returned past an accepting prefix.
C6_Witness ==
    /\ Len(items) = 1
    /\ items[1].kind = "UnknownChar"
    /\ items[1].position = 2
    /\ AcceptedLengths(0) # {}
    /\ index = 0

\* The number of bytes the walk from i follows before it stops.
WalkLength(i) ==
    Longest({l \in 0..(Len(input) - i) :
                ReachedNode(alphabet, nodes, input, i, l) # NoChild})

\* C7: a pull from cursor start whose walk stops at a missing transition or
\* at the end of the input returns UnexpectedEnd{start} when it entered no
\* accepting node, and the longest accepted prefix otherwise.
C7_UnexpectedEndAtStart ==
    [][ (ScanStep /\ ~ReachesUnknownByte(index)) =>
            IF AcceptedLengths(index) = {}
            THEN Pulled = UnexpectedEnd(index) /\ index' = index
            ELSE Pulled.kind = "Token"
                 /\ Len(Pulled.slice) = Longest(AcceptedLengths(index)) ]_vars

\* C7 witness: UnexpectedEnd at the start of a second pull whose walk
\* followed a transition before it stopped.
C7_Witness ==
    /\ Len(items) = 2
    /\ items[1].kind = "Token"
    /\ items[2] = UnexpectedEnd(index)
    /\ index = 1
    /\ WalkLength(index) >= 1

\* C8: a pull that returns an error leaves the cursor where it was, and the
\* pull after an error returns that same error: no None and no token follows.
C8_ErrorKeepsCursor ==
    [][ PullStep =>
            /\ IsError(Pulled) => index' = index
            /\ (items # <<>> /\ IsError(items[Len(items)]))
                   => Pulled = items[Len(items)] ]_vars

\* C8 witness: a token, then the same error three times.
C8_Witness ==
    /\ Len(items) = 4
    /\ items[1].kind = "Token"
    /\ IsError(items[2])
    /\ items[3] = items[2] /\ items[4] = items[2]

\* A step that is one get call; its key and result are in lastCall'.
GetStep == lastCall' # lastCall /\ lastCall'.op = "get"

\* C11: for a key over the alphabet, get answers Some(v) exactly when every
\* byte of the key follows a present transition from the root and the node
\* reached after the last byte has value v, and None when a transition is
\* missing or that node has no value; get leaves the table as it was.
C11_ExactConsumptionGet ==
    [][ (GetStep /\ lastCall'.arg \in Keys) =>
            LET key == lastCall'.arg
                n == ReachedNode(alphabet, nodes, key, 0, Len(key))
            IN  /\ lastCall'.result =
                       IF n # NoChild /\ HasValue(nodes, n)
                       THEN Some(GetValue(nodes, n)) ELSE None
                /\ nodes' = nodes ]_vars

\* C11 witness: get answered None for a two-byte key whose second byte has
\* no transition, though the table accepts the first byte alone.
C11_Witness ==
    /\ lastCall.op = "get"
    /\ lastCall.arg \in Keys
    /\ Len(lastCall.arg) = 2
    /\ lastCall.result = None
    /\ Get(alphabet, nodes, lastCall.arg) = None
    /\ Get(alphabet, nodes, SubSeq(lastCall.arg, 1, 1)).kind = "Some"
    /\ ReachedNode(alphabet, nodes, lastCall.arg, 0, 2) = NoChild

\* The first byte of key that is not in the alphabet.
FirstOutside(key) ==
    key[CHOOSE i \in 1..Len(key) :
            /\ key[i] \notin Range(alphabet)
            /\ \A j \in 1..(i - 1) : key[j] \in Range(alphabet)]

\* C12: get of an ASCII key that holds a byte outside the alphabet returns
\* InvalidInput(ch), ch the first such byte, whatever the table contains and
\* whatever bytes come before ch.
C12_GetInvalidInput ==
    [][ (/\ GetStep
         /\ IsAscii(lastCall'.arg)
         /\ \E i \in 1..Len(lastCall'.arg) : lastCall'.arg[i] \notin Range(alphabet))
            => lastCall'.result = InvalidInput(FirstOutside(lastCall'.arg)) ]_vars

(***************************************************************************)
(* The first ill-formed element of a pattern, read off the grammar: a      *)
(* literal or a class member that is not in the alphabet ("byte"), or a    *)
(* class that is empty or has no closing bracket ("class").                *)
(***************************************************************************)
NoFlaw == [kind |-> "none", ch |-> ""]
ByteFlaw(c) == [kind |-> "byte", ch |-> c]
ClassFlaw == [kind |-> "class", ch |-> ""]

Lowest(S) == CHOOSE k \in S : \A m \in S : k <= m

RECURSIVE FirstFlaw(_, _)
FirstFlaw(s, i) ==
    IF i >= Len(s) THEN NoFlaw
    ELSE LET isClass == s[i + 1] = "["
             close == ClassEnd(s, i + 1)
             outside == {k \in (i + 1)..(close - 1) : s[k + 1] \notin Range(TheAlphabet)}
             after == IF isClass THEN close + 1 ELSE i + 1
             plus == after < Len(s) /\ s[after + 1] = "+"
         IN  IF isClass
             THEN IF outside # {} THEN ByteFlaw(s[Lowest(outside) + 1])
                  ELSE IF close >= Len(s) \/ close = i + 1 THEN ClassFlaw
                  ELSE FirstFlaw(s, IF plus THEN after + 1 ELSE after)
             ELSE IF s[i + 1] \notin Range(TheAlphabet) THEN ByteFlaw(s[i + 1])
                  ELSE FirstFlaw(s, IF plus THEN after + 1 ELSE after)

\* C13: an add of an ASCII pattern whose first ill-formed element is a
\* literal c or a class member c that is not in the alphabet returns
\* InvalidInput(c), and the call sets the value of no node.
C13_AddInvalidInput ==
    [][ AddStep =>
            LET e == addLog'[Len(addLog')]
            IN  (IsAscii(e.pat) /\ FirstFlaw(e.pat, 0).kind = "byte") =>
                    /\ e.result = InvalidInput(FirstFlaw(e.pat, 0).ch)
                    /\ ValuedNodes(nodes') = ValuedNodes(nodes) ]_vars

\* C13 witness: an add failed on a literal outside the alphabet after the
\* atom before it had allocated a node, and an add failed on a class member
\* outside the alphabet; no node has a value.
C13_Witness ==
    /\ Len(addLog) = 2
    /\ addLog[1].pat = <<"a", "x">> /\ addLog[1].result = InvalidInput("x")
    /\ addLog[2].pat = <<"[", "x">> /\ addLog[2].result = InvalidInput("x")
    /\ NodeCount(nodes) = 2
    /\ ValuedNodes(nodes) = {}

\* The first ill-formed atom of s from source index i on is a class that is
\* empty or has no closing bracket, whatever bytes it holds.
RECURSIVE FirstFlawIsOpenOrEmptyClass(_, _)
FirstFlawIsOpenOrEmptyClass(s, i) ==
    IF i >= Len(s) THEN FALSE
    ELSE LET isClass == s[i + 1] = "["
             close == ClassEnd(s, i + 1)
             outside == {k \in (i + 1)..(close - 1) : s[k + 1] \notin Range(TheAlphabet)}
             after == IF isClass THEN close + 1 ELSE i + 1
             plus == after < Len(s) /\ s[after + 1] = "+"
         IN  IF isClass
             THEN IF close >= Len(s) \/ close = i + 1 THEN TRUE
                  ELSE IF outside # {} THEN FALSE
                  ELSE FirstFlawIsOpenOrEmptyClass(s, IF plus THEN after + 1 ELSE after)
             ELSE IF s[i + 1] \notin Range(TheAlphabet) THEN FALSE
                  ELSE FirstFlawIsOpenOrEmptyClass(s, IF plus THEN after + 1 ELSE after)

\* C14 as stated: an add of an ASCII pattern that holds, after well-formed
\* atoms, a class that is empty or has no closing bracket returns
\* InvalidRange.
C14_AddInvalidRange_Original ==
    [][ AddStep =>
            LET e == addLog'[Len(addLog')]
            IN  (IsAscii(e.pat) /\ FirstFlawIsOpenOrEmptyClass(e.pat, 0))
                    => e.result = InvalidRange ]_vars

\* C14: an add of an ASCII pattern that holds, after well-formed atoms, a
\* class that is empty or has no closing bracket, and all of whose bytes are
\* in the alphabet, returns InvalidRange.
C14_AddInvalidRange ==
    [][ AddStep =>
            LET e == addLog'[Len(addLog')]
            IN  (IsAscii(e.pat) /\ FirstFlaw(e.pat, 0) = ClassFlaw)
                    => e.result = InvalidRange ]_vars

\* C14 witness: InvalidRange for an empty class followed by '+', and for a
\* class without closing bracket after an atom that had installed its
\* self-loop.
C14_Witness ==
    /\ Len(addLog) = 2
    /\ addLog[1].pat = <<"[", "]", "+">> /\ addLog[1].result = InvalidRange
    /\ addLog[2].pat = <<"a", "+", "[", "a">> /\ addLog[2].result = InvalidRange
    /\ NodeCount(nodes) = 2
    /\ GetChildren(nodes, 1, 0) = 1

\* The frontier after the first k atoms, read off the transitions of ns: the
\* nodes reached from the root by one byte of each of these atoms in turn.
RECURSIVE FrontierAfter(_, _, _, _)
FrontierAfter(alpha, ns, atoms, k) ==
    IF k = 0 THEN {0}
    ELSE {GetChildren(ns, n, Find(alpha, c)) :
              n \in FrontierAfter(alpha, ns, atoms, k - 1), c \in atoms[k].bytes}
         \ {NoChild}

\* C15: after an add that returned Ok, for every atom A+ of its pattern,
\* every node of the frontier right after A+ has, on every alphabet position
\* of A's range, a child slot that holds the node itself, whatever the table
\* held before the add.
C15_SelfLoopExistence ==
    [][ AddStep =>
            LET e == addLog'[Len(addLog')]
                atoms == PatternAtoms(e.pat, 0)
            IN  e.result = Ok =>
                    \A k \in DOMAIN atoms :
                        atoms[k].plus =>
                            \A n \in FrontierAfter(alphabet, nodes', atoms, k) :
                                \A c \in atoms[k].bytes :
                                    GetChildren(nodes', n, Find(alphabet, c)) = n ]_vars

\* The nodes of a fresh table.
FreshNodes == <<NewNode(Len(TheAlphabet))>>

\* pat is X+Y, or X+Y+, with every byte of Y's range in X's range.
ConvergentPattern(pat) ==
    LET atoms == PatternAtoms(pat, 0)
    IN  /\ WellFormed(pat)
        /\ Len(atoms) = 2
        /\ atoms[1].plus
        /\ atoms[2].bytes \subseteq atoms[1].bytes

\* The X+ that pat starts with: pat up to its first '+'.
XPlus(pat) == SubSeq(pat, 1, Lowest({i \in 1..Len(pat) : pat[i] = "+"}))

\* C16: on a fresh table, the add of a pattern X+Y with Y's range inside
\* X's range returns Ok, and get then answers every key over the alphabet as
\* it does on a fresh table to which only X+ was added with the same value.
C16_PermissiveConvergence ==
    (Len(addLog) = 1 /\ ConvergentPattern(addLog[1].pat)) =>
        /\ addLog[1].result = Ok
        /\ \A o \in AddOutcomes(alphabet, FreshNodes, XPlus(addLog[1].pat),
                                 addLog[1].value) :
               /\ o.result = Ok
               /\ \A key \in Keys :
                      Get(alphabet, nodes, key) = Get(alphabet, o.nodes, key)

\* C16 witness: [ab]+[ab] was added to the fresh table, and get accepts a
\* single byte and a key of three bytes.
C16_Witness ==
    /\ Len(addLog) = 1
    /\ addLog[1].pat = <<"[", "a", "b", "]", "+", "[", "a", "b", "]">>
    /\ addLog[1].result = Ok
    /\ Get(alphabet, nodes, <<"b">>) = Some(addLog[1].value)
    /\ Get(alphabet, nodes, <<"b", "a", "b">>) = Some(addLog[1].value)

\* The add that is made extends by the single atom x the pattern p of the
\* successful add k, into territory without transitions: no node of p's
\* final frontier has a transition on a byte of x.
ExtendsIntoFresh(k, x) ==
    /\ AddStep
    /\ k \in OkAdds
    /\ addLog'[Len(addLog')].pat = addLog[k].pat \o x
    /\ \A n \in addLog[k].frontier : \A c \in PatternAtoms(x, 0)[1].bytes :
           GetChildren(nodes, n, Find(alphabet, c)) = NoChild

\* The nodes on p's path are reused: the nodes that were there keep their
\* value and their transitions, and p leads to the same frontier.
PathReused(k) ==
    /\ \A n \in NodeIds(nodes) : \A pos \in 0..(Len(alphabet) - 1) :
           GetChildren(nodes, n, pos) # NoChild
               => GetChildren(nodes', n, pos) = GetChildren(nodes, n, pos)
    /\ FrontierAfter(alphabet, nodes', PatternAtoms(addLog[k].pat, 0),
                     Len(PatternAtoms(addLog[k].pat, 0))) = addLog[k].frontier

\* C17 as stated: after add(p) succeeded, add(p x), x a single atom that
\* extends p into territory without transitions, reuses every node on p's
\* path and increases the node count by exactly 1.
C17_SharedPrefixReuse_Original ==
    [][ \A k \in DOMAIN addLog : \A x \in Atoms :
            ExtendsIntoFresh(k, x) =>
                /\ PathReused(k)
                /\ NodeCount(nodes') = NodeCount(nodes) + 1 ]_vars

\* C17: after add(p) succeeded, add(p x), x a single atom that extends p
\* into territory without transitions, reuses every node on p's path and
\* allocates one node for every pair of a node of p's final frontier and a
\* byte of x's range.
C17_SharedPrefixReuse ==
    [][ \A k \in DOMAIN addLog : \A x \in Atoms :
            ExtendsIntoFresh(k, x) =>
                /\ PathReused(k)
                /\ NodeCount(nodes') =
                       NodeCount(nodes)
                           + Cardinality(addLog[k].frontier)
                               * Cardinality(PatternAtoms(x, 0)[1].bytes) ]_vars

\* C17 witness: [ab] then [ab][ab]+ were added: the two nodes of [ab] are
\* reused and four nodes are allocated.
C17_Witness ==
    /\ Len(addLog) = 2
    /\ AllAddsOk
    /\ addLog[1].pat = <<"[", "a", "b", "]">>
    /\ addLog[2].pat = <<"[", "a", "b", "]", "[", "a", "b", "]", "+">>
    /\ addLog[1].frontier = {1, 2}
    /\ NodeCount(nodes) = 7

Positions == 0..(Len(TheAlphabet) - 1)

\* C18: across every add, successful or failing, the node count does not
\* decrease, node 0 stays the root from which every key leads to the node it
\* led to before, and a child slot that holds a target keeps that target: an
\* installed self-loop is not overwritten.
C18_NodeIdStability ==
    [][ /\ NodeCount(nodes') >= NodeCount(nodes)
        /\ \A key \in Keys :
               ReachedNode(alphabet, nodes, key, 0, Len(key)) # NoChild
                   => ReachedNode(alphabet, nodes', key, 0, Len(key))
                          = ReachedNode(alphabet, nodes, key, 0, Len(key))
        /\ \A n \in NodeIds(nodes) : \A pos \in Positions :
               GetChildren(nodes, n, pos) # NoChild
                   => GetChildren(nodes', n, pos) = GetChildren(nodes, n, pos) ]_vars

\* C18 witness: aa was added, then a+, whose self-loop on node 1 met the
\* slot that leads to node 2: the slot still leads to node 2, and both nodes
\* are where aa put them.
C18_Witness ==
    /\ Len(addLog) = 2
    /\ addLog[1].pat = <<"a", "a">> /\ addLog[1].result = Ok
    /\ addLog[2].pat = <<"a", "+">> /\ addLog[2].result = Ok
    /\ GetChildren(nodes, 0, 0) = 1
    /\ GetChildren(nodes, 1, 0) = 2
    /\ NodeCount(nodes) = 3

\* C19: the root has a value exactly when an add of the empty pattern
\* returned Ok; the final frontier of an add of a non-empty pattern does not
\* hold the root, and no child slot of any node leads to node 0.
C19_RootValueIffEmptyPattern ==
    /\ HasValue(nodes, 0) <=> \E k \in OkAdds : addLog[k].pat = <<>>
    /\ \A k \in DOMAIN addLog : addLog[k].pat # <<>> => 0 \notin addLog[k].frontier
    /\ \A n \in NodeIds(nodes) : \A pos \in Positions : GetChildren(nodes, n, pos) # 0

\* C19 witness: the empty pattern and then a+ were added with different
\* values: the root holds the first value, node 1 its self-loop and the
\* second value.
C19_Witness ==
    /\ Len(addLog) = 2
    /\ addLog[1].pat = <<>> /\ addLog[1].result = Ok
    /\ addLog[2].pat = <<"a", "+">> /\ addLog[2].result = Ok
    /\ addLog[2].value # addLog[1].value
    /\ GetValue(nodes, 0) = addLog[1].value
    /\ GetChildren(nodes, 1, 0) = 1
    /\ addLog[2].frontier = {1}

\* A step that is one lexer call; its string and result are in lastCall'.
LexerStep == lastCall' # lastCall /\ lastCall'.op = "lexer"

HasNonAscii(s) == \E i \in 1..Len(s) : s[i] \in NonAscii

\* C20: add, get and lexer of a string that is not pure ASCII return
\* InvalidString, whatever else is wrong with the string; add leaves the
\* nodes, their transitions and their values as they were, and lexer leaves
\* no iterator.
C20_NonAsciiRejectedUpFront ==
    [][ /\ (AddStep /\ HasNonAscii(addLog'[Len(addLog')].pat)) =>
              /\ addLog'[Len(addLog')].result = InvalidString
              /\ nodes' = nodes
        /\ (GetStep /\ HasNonAscii(lastCall'.arg)) =>
              /\ lastCall'.result = InvalidString
              /\ nodes' = nodes
        /\ (LexerStep /\ HasNonAscii(lastCall'.arg)) =>
              /\ lastCall'.result = InvalidString
              /\ ~iterLive'
              /\ UNCHANGED <<nodes, input, index, items>> ]_vars

\* C20 witness: add of a string with an atom before its non-ASCII byte
\* returned InvalidString and allocated no node, and lexer of a string with
\* a byte outside the alphabet before its non-ASCII byte returned
\* InvalidString and left no iterator.
C20_Witness ==
    /\ Len(addLog) = 1
    /\ addLog[1].pat = <<"a", "#e9">>
    /\ addLog[1].result = InvalidString
    /\ nodes = FreshNodes
    /\ lastCall = [op |-> "lexer", arg |-> <<"x", "#e9">>, result |-> InvalidString]
    /\ ~iterLive

\* C22: no add returns AmbiguousPattern; a slot that holds a node keeps it
\* when an add meets it with another target, and the add goes on with the
\* rest of its pattern: the add of a well-formed pattern walks all its atoms
\* to its final frontier and returns Ok or ValueAlreadyDefined.
C22_NeverAmbiguousPattern ==
    [][ AddStep =>
            LET e == addLog'[Len(addLog')]
                atoms == PatternAtoms(e.pat, 0)
            IN  /\ e.result.kind \in {"Ok", "InvalidString", "InvalidInput",
                                       "InvalidRange", "ValueAlreadyDefined"}
                /\ \A n \in NodeIds(nodes) : \A pos \in Positions :
                       GetChildren(nodes, n, pos) # NoChild
                           => GetChildren(nodes', n, pos) = GetChildren(nodes, n, pos)
                /\ WellFormed(e.pat) =>
                       /\ e.result.kind \in {"Ok", "ValueAlreadyDefined"}
                       /\ e.frontier = FrontierAfter(alphabet, nodes', atoms, Len(atoms)) ]_vars

\* C22 witness: aa was added, then a+b: the self-loop of a+ on node 1 met
\* the slot that leads to node 2, which is kept, and the add went on to
\* allocate node 3 for b and returned Ok.
C22_Witness ==
    /\ Len(addLog) = 2
    /\ addLog[1].pat = <<"a", "a">> /\ addLog[1].result = Ok
    /\ addLog[2].pat = <<"a", "+", "b">> /\ addLog[2].result = Ok
    /\ GetChildren(nodes, 1, 0) = 2
    /\ GetChildren(nodes, 1, 1) = 3
    /\ addLog[2].frontier = {3}

\* The source index at which the first ill-formed atom of s starts, Len(s)
\* when s has none.
RECURSIVE FlawStart(_, _)
FlawStart(s, i) ==
    IF i >= Len(s) THEN Len(s)
    ELSE LET isClass == s[i + 1] = "["
             close == ClassEnd(s, i + 1)
             after == IF isClass THEN close + 1 ELSE i + 1
             plus == after < Len(s) /\ s[after + 1] = "+"
         IN  IF PatternAtoms(s, i)[1].wellFormed
             THEN FlawStart(s, IF plus THEN after + 1 ELSE after)
             ELSE i

\* The atoms of s before its first ill-formed atom.
AtomsBeforeFlaw(s) == SubSeq(s, 1, FlawStart(s, 0))

\* C23: an add that fails with InvalidInput or InvalidRange leaves in the
\* table every node, transition and self-loop of the atoms before the
\* failure, as the add of these atoms alone builds them, and sets no value.
C23_AddNotTransactional ==
    [][ AddStep =>
            LET e == addLog'[Len(addLog')]
            IN  e.result.kind \in {"InvalidInput", "InvalidRange"} =>
                    /\ \A o \in AddOutcomes(alphabet, nodes, AtomsBeforeFlaw(e.pat), e.value) :
                           /\ NodeCount(nodes') = NodeCount(o.nodes)
                           /\ \A n \in NodeIds(nodes') :
                                  nodes'[n + 1].children = o.nodes[n + 1].children
                    /\ \A n \in NodeIds(nodes') : n \in NodeIds(nodes) \/ ~HasValue(nodes', n)
                    /\ \A n \in NodeIds(nodes) : GetValue(nodes', n) = GetValue(nodes, n) ]_vars

\* C23 witness: the add of a+[a failed with InvalidRange on the fresh table
\* and left node 1 with its self-loop; the table has two nodes, no value.
C23_Witness ==
    /\ Len(addLog) = 1
    /\ addLog[1].pat = <<"a", "+", "[", "a">>
    /\ addLog[1].result = InvalidRange
    /\ NodeCount(nodes) = 2
    /\ GetChildren(nodes, 0, 0) = 1
    /\ GetChildren(nodes, 1, 0) = 1
    /\ ValuedNodes(nodes) = {}

\* The add that is made fails before it installs values.
FailedAddStep ==
    /\ AddStep
    /\ addLog'[Len(addLog')].result.kind
           \in {"InvalidString", "InvalidInput", "InvalidRange"}

\* C24 as stated, for the keys over the alphabet: after an add that returns
\* InvalidString, InvalidInput or InvalidRange, get returns for every key
\* what it returned before that add.
C24_FailedAddInvisible_Original ==
    [][ FailedAddStep =>
            \A key \in Keys :
                Get(alphabet, nodes', key) = Get(alphabet, nodes, key) ]_vars

\* C24: after an add that returns InvalidString, or that returns
\* InvalidInput or InvalidRange with no '+' atom before the failure, get
\* returns for every key over the alphabet what it returned before that add.
C24_FailedAddInvisible ==
    [][ FailedAddStep =>
            LET e == addLog'[Len(addLog')]
            IN  (e.result = InvalidString \/ ~HasPlus(AtomsBeforeFlaw(e.pat))) =>
                    \A key \in Keys :
                        Get(alphabet, nodes', key) = Get(alphabet, nodes, key) ]_vars

\* C24 witness: b was added, then the add of ax failed with InvalidInput
\* after it had allocated a node for a; get still accepts b and not a.
C24_Witness ==
    /\ Len(addLog) = 2
    /\ addLog[1].pat = <<"b">> /\ addLog[1].result = Ok
    /\ addLog[2].pat = <<"a", "x">> /\ addLog[2].result = InvalidInput("x")
    /\ NodeCount(nodes) = 3
    /\ Get(alphabet, nodes, <<"b">>) = Some(addLog[1].value)
    /\ Get(alphabet, nodes, <<"a">>) = None

\* C25: a key that get answers with Some(v) is answered with Some(v) after
\* every later add, whether that add returns Ok or an error.
C25_AcceptedKeysStable ==
    [][ \A key \in Keys :
            Get(alphabet, nodes, key).kind = "Some"
                => Get(alphabet, nodes', key) = Get(alphabet, nodes, key) ]_vars

\* C25 witness: aa was added, then a+ with another value, whose self-loop
\* met the transition of aa: get still answers aa with the first value, and
\* a with the second.
C25_Witness ==
    /\ Len(addLog) = 2
    /\ addLog[1].pat = <<"a", "a">> /\ addLog[1].result = Ok
    /\ addLog[2].pat = <<"a", "+">> /\ addLog[2].result = Ok
    /\ addLog[2].value # addLog[1].value
    /\ Get(alphabet, nodes, <<"a", "a">>) = Some(addLog[1].value)
    /\ Get(alphabet, nodes, <<"a">>) = Some(addLog[2].value)

\* C26: the table after add(pat, v) is the same for every order in which the
\* de-duplicated final frontier is visited to install the value, also when
\* the add fails with ValueAlreadyDefined on one of several frontier nodes.
C26_FrontierOrderIndependence ==
    [][ AddStep =>
            LET e == addLog'[Len(addLog')]
            IN  \A o \in AddOutcomes(alphabet, nodes, e.pat, e.value) :
                    o.nodes = nodes' ]_vars

\* C27: every token (v, slice) an iterator emitted has a non-empty slice
\* that get answers with Some(v) on the table the iterator scans.
C27_TokensAgreeWithGet ==
    \A k \in DOMAIN items :
        items[k].kind = "Token" =>
            /\ items[k].slice # <<>>
            /\ Get(alphabet, nodes, items[k].slice) = Some(items[k].value)

\* C27 witness: a token of two bytes was emitted where the table accepts
\* the first byte alone with another value.
C27_Witness ==
    /\ iterLive
    /\ Len(items) >= 1
    /\ items[1].kind = "Token"
    /\ Len(items[1].slice) = 2
    /\ Get(alphabet, nodes, items[1].slice) = Some(items[1].value)
    /\ Get(alphabet, nodes, SubSeq(input, 1, 1)).kind = "Some"
    /\ Get(alphabet, nodes, SubSeq(input, 1, 1)) # Some(items[1].value)

\* C28: a pull that emits a token moves the cursor forward by the at least
\* one byte of its slice, the token is the value of a node other than the
\* root, and the first pull over the empty input returns None.
C28_NoEmptyToken ==
    [][ PullStep =>
            /\ Pulled.kind = "Token" =>
                   /\ Pulled.slice # <<>>
                   /\ index' >= index + 1
                   /\ ReachedNode(alphabet, nodes, input, index, Len(Pulled.slice))
                          \notin {0, NoChild}
                   /\ Pulled.value
                          = GetValue(nodes, ReachedNode(alphabet, nodes, input, index,
                                                        Len(Pulled.slice)))
            /\ input = <<>> => Pulled = EndOfIteration ]_vars

\* C28 witness: the root has a value and node 1 another; the pull over a
\* one-byte input emitted node 1's value, and the next pull returned None.
C28_Witness ==
    /\ iterLive
    /\ HasValue(nodes, 0)
    /\ Len(input) = 1
    /\ Len(items) = 2
    /\ items[1].kind = "Token"
    /\ items[1].value # GetValue(nodes, 0)
    /\ items[2] = EndOfIteration

TokenCount(its) == Cardinality({k \in DOMAIN its : its[k].kind = "Token"})

\* C29: a pull returns after at most |input| - cursor transitions, on
\* tables with self-loops too, and an iterator emits at most |input| tokens
\* before it returns None or an error.
C29_ScanningTerminates ==
    [][ PullStep =>
            /\ IterNext(alphabet, nodes, input, index).steps >= 0
            /\ index <= Len(input)
            /\ IterNext(alphabet, nodes, input, index).steps <= Len(input) - index
            /\ TokenCount(items') <= Len(input)
            /\ TokenCount(items') = Len(input) =>
                   IterNext(alphabet, nodes, input, index').item.kind # "Token" ]_vars

\* C29 witness: on a table with a self-loop the pull over three bytes
\* followed three transitions and emitted them as one token; the next pull
\* returned None.
C29_Witness ==
    /\ iterLive
    /\ Len(input) = 3
    /\ \E n \in NodeIds(nodes) : \E pos \in Positions : GetChildren(nodes, n, pos) = n
    /\ IterNext(alphabet, nodes, input, 0).steps = 3
    /\ Len(items) = 2
    /\ items[1].kind = "Token" /\ Len(items[1].slice) = 3
    /\ items[2] = EndOfIteration

Shorter(m, n) == IF m <= n THEN m ELSE n

RECURSIVE RunAlone(_, _, _, _, _)
RunAlone(alpha, ns, inp, idx, n) ==
    IF n = 0 THEN <<>>
    ELSE <<IterNext(alpha, ns, inp, idx).item>>
             \o RunAlone(alpha, ns, inp, IterNext(alpha, ns, inp, idx).index, n - 1)

\* A step that is one pull on the second iterator.
PullSecondStep == second.live /\ Len(second'.items) = Len(second.items) + 1

\* C30: whatever the interleaving of the pulls on two iterators over one
\* table, after every pull each iterator has returned the items it returns
\* when it is pulled alone, and no pull changes the table.
C30_IndependentIterators ==
    [][ (PullStep \/ PullSecondStep) =>
            /\ nodes' = nodes
            /\ iterLive' =>
                   items' = RunAlone(alphabet, nodes, input', 0, Len(items'))
            /\ second'.live =>
                   second'.items = RunAlone(alphabet, nodes, second'.input, 0,
                                            Len(second'.items)) ]_vars

\* C30 witness: two iterators over different inputs, pulled in turn, have
\* returned what each returns alone: a token and an error for one, two
\* tokens and None for the other.
C30_Witness ==
    /\ iterLive /\ second.live
    /\ input = <<"a", "b", "@">> /\ second.input = <<"b", "a">>
    /\ Len(items) = 2 /\ Len(second.items) = 3
    /\ items[1].kind = "Token" /\ items[2].kind = "UnknownChar"
    /\ second.items[1].kind = "Token" /\ second.items[2].kind = "Token"
    /\ second.items[3] = EndOfIteration
    /\ items = RunAlone(alphabet, nodes, input, 0, 2)
    /\ second.items = RunAlone(alphabet, nodes, second.input, 0, 3)

\* A pull that is made right after a pull that returned a scan error.
RetryStep == PullStep /\ items # <<>> /\ IsError(items[Len(items)])

\* The number of input bytes the tokens among its cover.
RECURSIVE TokenBytes(_, _)
TokenBytes(its, n) ==
    IF n = 0 THEN 0
    ELSE TokenBytes(its, n - 1)
             + (IF its[n].kind = "Token" THEN Len(its[n].slice) ELSE 0)

\* C31 as stated: a pull made after a pull that returned a scan error starts
\* scanning one past the position of that error.
C31_RetryResumesPastError_Original ==
    [][ RetryStep => index = items[Len(items)].position + 1 ]_vars

\* C31: a pull made after a pull that returned a scan error starts scanning
\* where the failed pull started, which is the end of the last token emitted
\* (0 when there is none) and is not past the position of the error; it
\* returns that error again and leaves the cursor there.
C31_RetryResumesPastError ==
    [][ RetryStep =>
            /\ index = TokenBytes(items, Len(items))
            /\ index <= items[Len(items)].position
            /\ Pulled = IterNext(alphabet, nodes, input,
                                 TokenBytes(items, Len(items))).item
            /\ Pulled = items[Len(items)]
            /\ index' = TokenBytes(items, Len(items)) ]_vars

\* C31 witness: after the token a, the pull from cursor 1 followed b and met
\* the unknown byte at 2; the retried pull started at 1 again, not at 3, and
\* returned the same UnknownChar.
C31_Witness ==
    /\ iterLive
    /\ input = <<"a", "b", "@">>
    /\ Len(items) = 3
    /\ items[1].kind = "Token" /\ items[1].slice = <<"a">>
    /\ items[2] = UnknownChar("@", 2)
    /\ items[3] = items[2]
    /\ index = 1

(***************************************************************************)
(* The roles of the bytes of a pattern, read off the syntax rules: the     *)
(* brackets first, then the '+' that stand outside the classes.            *)
(***************************************************************************)
\* The role of every byte of s from source index i on: "open" and "close"
\* for the brackets of a class, "member" for the bytes between them, "out"
\* for the bytes outside the classes.
RECURSIVE BracketRoles(_, _, _)
BracketRoles(s, i, inside) ==
    IF i >= Len(s) THEN <<>>
    ELSE IF inside
    THEN IF s[i + 1] = "]" THEN <<"close">> \o BracketRoles(s, i + 1, FALSE)
         ELSE <<"member">> \o BracketRoles(s, i + 1, TRUE)
    ELSE IF s[i + 1] = "[" THEN <<"open">> \o BracketRoles(s, i + 1, TRUE)
         ELSE <<"out">> \o BracketRoles(s, i + 1, FALSE)

BracketRole(s, i) == BracketRoles(s, 0, FALSE)[i + 1]

\* Whether the byte at source index i is a '+' that stands outside the
\* classes and directly follows a completed atom: a closing bracket, or a
\* byte outside the classes that is not itself an operator.
RECURSIVE IsOperator(_, _)
IsOperator(s, i) ==
    /\ i > 0
    /\ s[i + 1] = "+"
    /\ BracketRole(s, i) = "out"
    /\ \/ BracketRole(s, i - 1) = "close"
       \/ BracketRole(s, i - 1) = "out" /\ ~IsOperator(s, i - 1)

\* The atoms of s from source index i on, by these roles: the member bytes
\* as written, whether the atom is complete, and whether an operator
\* follows it.
RECURSIVE SyntaxAtoms(_, _)
SyntaxAtoms(s, i) ==
    IF i >= Len(s) THEN <<>>
    ELSE IF IsOperator(s, i) THEN SyntaxAtoms(s, i + 1)
    ELSE IF BracketRole(s, i) = "open"
    THEN LET close == ClassEnd(s, i + 1)
         IN  <<[class |-> TRUE, members |-> SubSeq(s, i + 2, close),
                closed |-> close < Len(s),
                plus |-> close + 1 < Len(s) /\ IsOperator(s, close + 1)]>>
             \o SyntaxAtoms(s, close + 1)
    ELSE <<[class |-> FALSE, members |-> <<s[i + 1]>>, closed |-> TRUE,
            plus |-> i + 1 < Len(s) /\ IsOperator(s, i + 1)]>>
         \o SyntaxAtoms(s, i + 1)

HasAbsent(alpha, atom) ==
    \E k \in DOMAIN atom.members : Find(alpha, atom.members[k]) = NoChild

\* The first member of an atom that is not in the alphabet, when it has one.
FirstAbsent(alpha, atom) ==
    atom.members[CHOOSE k \in DOMAIN atom.members :
                     /\ Find(alpha, atom.members[k]) = NoChild
                     /\ \A j \in 1..(k - 1) : Find(alpha, atom.members[j]) # NoChild]

ValidAtom(alpha, atom) ==
    atom.closed /\ atom.members # <<>> /\ ~HasAbsent(alpha, atom)

ValidSyntax(alpha, s) ==
    IsAscii(s) /\ \A k \in DOMAIN SyntaxAtoms(s, 0) : ValidAtom(alpha, SyntaxAtoms(s, 0)[k])

\* The alphabet positions of the members, each once, in first-seen order.
RECURSIVE FirstSeen(_, _, _)
FirstSeen(alpha, members, k) ==
    IF k = 0 THEN <<>>
    ELSE LET before == FirstSeen(alpha, members, k - 1)
             pos == Find(alpha, members[k])
         IN  IF pos \in Range(before) THEN before ELSE Append(before, pos)

\* The table and the frontier after atoms[k..] are compiled from currents:
\* a transition on every member from every frontier node, and a self-loop
\* on the members where the atom has an operator.
RECURSIVE BuildAtoms(_, _, _, _, _)
BuildAtoms(alpha, ns, atoms, k, currents) ==
    IF k > Len(atoms) THEN [nodes |-> ns, currents |-> currents]
    ELSE LET range == FirstSeen(alpha, atoms[k].members, Len(atoms[k].members))
             r == AddFromRange(alpha, ns, range, currents)
         IN  BuildAtoms(alpha,
                        IF atoms[k].plus THEN SelfLoops(r.nodes, r.currents, range, 1)
                        ELSE r.nodes,
                        atoms, k + 1, r.currents)

\* C32: add compiles a pattern whose atoms are all valid as its atoms read
\* with '+' an operator exactly where it directly follows a completed atom:
\* a '+' at the start or directly after an operator, and every '*', is a
\* literal with a transition of its own; the table and the frontier are the
\* ones these atoms build, and the value goes to that frontier.
C32_PlusOperatorPosition ==
    [][ AddStep =>
            LET e == addLog'[Len(addLog')]
                b == BuildAtoms(alphabet, nodes, SyntaxAtoms(e.pat, 0), 1, <<0>>)
            IN  ValidSyntax(alphabet, e.pat) =>
                    /\ e.result.kind \in {"Ok", "ValueAlreadyDefined"}
                    /\ e.frontier = Range(b.currents)
                    /\ \E o \in InstallOutcomes(b.nodes, b.currents, e.value) :
                           nodes' = o.nodes /\ e.result = o.result ]_vars

\* C32 witness: on the fresh table over a + [ ] *, a++ was added: node 1 is
\* reached by a and loops on a, node 2 is reached from it by the literal
\* '+' and holds the value; node 2 has no self-loop.
C32_Witness ==
    /\ Len(addLog) = 1
    /\ Find(alphabet, "+") # NoChild
    /\ addLog[1].pat = <<"a", "+", "+">> /\ addLog[1].result = Ok
    /\ NodeCount(nodes) = 3
    /\ GetChildren(nodes, 0, Find(alphabet, "a")) = 1
    /\ GetChildren(nodes, 1, Find(alphabet, "a")) = 1
    /\ GetChildren(nodes, 1, Find(alphabet, "+")) = 2
    /\ GetChildren(nodes, 2, Find(alphabet, "+")) = NoChild
    /\ ValuedNodes(nodes) = {2}
    /\ Get(alphabet, nodes, <<"a", "a", "+">>) = Some(addLog[1].value)

\* The index in atoms of the first atom that is not valid, 0 when all are.
FirstInvalid(alpha, atoms) ==
    IF \E k \in DOMAIN atoms : ~ValidAtom(alpha, atoms[k])
    THEN CHOOSE k \in DOMAIN atoms :
             /\ ~ValidAtom(alpha, atoms[k])
             /\ \A j \in 1..(k - 1) : ValidAtom(alpha, atoms[j])
    ELSE 0

\* The alphabet positions on which node n of ns has a transition.
Transitions(ns, n) ==
    {pos \in 0..(Len(ns[n + 1].children) - 1) : GetChildren(ns, n, pos) # NoChild}

\* C33: whatever the alphabet holds, add reads a '[' outside a class as the
\* start of a class that the first ']' after it ends, and every byte in
\* between as a member: an ASCII pattern fails at its first atom that is
\* not valid, with InvalidInput(c) for the first member or literal c that
\* is not in the alphabet, and with InvalidRange for a class without such a
\* member that is empty or not closed; and on a fresh table a pattern that
\* starts with a valid class gives the root a transition on exactly the
\* members of that class.
C33_BracketsAreSyntactic ==
    [][ AddStep =>
            LET e == addLog'[Len(addLog')]
                atoms == SyntaxAtoms(e.pat, 0)
                k == FirstInvalid(alphabet, atoms)
            IN  /\ k = 0 => e.result.kind \in {"Ok", "ValueAlreadyDefined"}
                /\ (k # 0 /\ HasAbsent(alphabet, atoms[k]))
                       => e.result = InvalidInput(FirstAbsent(alphabet, atoms[k]))
                /\ (k # 0 /\ ~HasAbsent(alphabet, atoms[k])) => e.result = InvalidRange
                /\ (addLog = <<>> /\ atoms # <<>> /\ k # 1 /\ atoms[1].class)
                       => Transitions(nodes', 0)
                              = {Find(alphabet, atoms[1].members[j]) :
                                     j \in DOMAIN atoms[1].members} ]_vars

\* C33 witness: over the alphabet that holds '[' and ']', [[a] was added to
\* the fresh table and returned Ok: the root has a transition on '[' and on
\* a, both to nodes that hold the value, and none on ']'.
C33_Witness ==
    /\ Len(addLog) = 1
    /\ Find(alphabet, "[") # NoChild /\ Find(alphabet, "]") # NoChild
    /\ addLog[1].pat = <<"[", "[", "a", "]">> /\ addLog[1].result = Ok
    /\ NodeCount(nodes) = 3
    /\ Transitions(nodes, 0) = {Find(alphabet, "["), Find(alphabet, "a")}
    /\ GetChildren(nodes, 0, Find(alphabet, "]")) = NoChild
    /\ Get(alphabet, nodes, <<"[">>) = Some(addLog[1].value)
    /\ Get(alphabet, nodes, <<"a">>) = Some(addLog[1].value)

\* Whether the byte at source index i is a member of a class in which the
\* same byte stands before it.
Repeated(s, i) ==
    \E j \in 0..(i - 1) :
        /\ s[j + 1] = s[i + 1]
        /\ \A k \in j..i : BracketRole(s, k) = "member"

\* s with every class reduced to its distinct members in first-seen order:
\* the bytes of s[1..n] without the repeated members.
RECURSIVE Reduced(_, _)
Reduced(s, n) ==
    IF n = 0 THEN <<>>
    ELSE IF Repeated(s, n - 1) THEN Reduced(s, n - 1)
    ELSE Append(Reduced(s, n - 1), s[n])

\* C34: on the same table, add(pat, v) has the outcomes of add(r, v), where
\* r is pat with every class reduced to its distinct members in first-seen
\* order: the same node count, transitions and values, and the same result.
C34_ClassDuplicatesCollapse ==
    [][ AddStep =>
            LET e == addLog'[Len(addLog')]
                r == Reduced(e.pat, Len(e.pat))
            IN  /\ AddOutcomes(alphabet, nodes, e.pat, e.value)
                       = AddOutcomes(alphabet, nodes, r, e.value)
                /\ \E o \in AddOutcomes(alphabet, nodes, r, e.value) :
                       nodes' = o.nodes /\ e.result = o.result ]_vars

\* C34 witness: over the alphabet a b, [aba] was added to the fresh table:
\* it reduces to [ab], and the table is the one of [ab], with node 1 for a
\* and node 2 for b, both with the value, and no third node.
C34_Witness ==
    /\ Len(addLog) = 1
    /\ alphabet = <<"a", "b">>
    /\ addLog[1].pat = <<"[", "a", "b", "a", "]">> /\ addLog[1].result = Ok
    /\ Reduced(addLog[1].pat, 5) = <<"[", "a", "b", "]">>
    /\ NodeCount(nodes) = 3
    /\ GetChildren(nodes, 0, 0) = 1 /\ GetChildren(nodes, 0, 1) = 2
    /\ ValuedNodes(nodes) = {1, 2}
    /\ \E o \in AddOutcomes(alphabet, <<NewNode(2)>>, <<"[", "a", "b", "]">>,
                            addLog[1].value) : o.nodes = nodes

\* C35: in every reachable table, every node has as many child slots as
\* the alphabet has bytes, and every slot is absent or holds the id of a
\* node of the arena.
C35_TransitionValidity ==
    \A n \in NodeIds(nodes) :
        /\ Len(nodes[n + 1].children) = Len(alphabet)
        /\ \A pos \in 0..(Len(alphabet) - 1) :
               \/ GetChildren(nodes, n, pos) = NoChild
               \/ /\ GetChildren(nodes, n, pos) >= 0
                  /\ GetChildren(nodes, n, pos) < NodeCount(nodes)

\* C35 witness: after two adds, one of which failed, the table has four
\* nodes or more, with a slot that holds the last node of the arena, a
\* self-loop and an absent slot.
C35_Witness ==
    /\ Len(addLog) = 2
    /\ \E k \in DOMAIN addLog : addLog[k].result.kind \in {"InvalidInput", "InvalidRange"}
    /\ NodeCount(nodes) >= 4
    /\ \E n \in NodeIds(nodes) : \E pos \in Positions :
           GetChildren(nodes, n, pos) = NodeCount(nodes) - 1
    /\ \E n \in NodeIds(nodes) : \E pos \in Positions : GetChildren(nodes, n, pos) = n
    /\ \E n \in NodeIds(nodes) : \E pos \in Positions : GetChildren(nodes, n, pos) = NoChild

\* C36: in every pull, the candidates in last_match when the walk stops
\* have strictly increasing end indices, none before the start cursor, and
\* they are the accepting prefixes the walk has passed; a pull that stops at
\* a dead end or at the end of the input with a candidate emits the last
\* one, which is the longest of them.
C36_CandidatesIncrease ==
    [][ PullStep =>
            LET r == IterNext(alphabet, nodes, input, index)
                m == r.matches
            IN  /\ \A k \in 1..(Len(m) - 1) : m[k][1] < m[k + 1][1]
                /\ \A k \in DOMAIN m : m[k][1] >= index
                /\ {m[k][1] + 1 - index : k \in DOMAIN m}
                       = {l \in AcceptedLengths(index) : l <= r.steps}
                /\ \A k \in DOMAIN m :
                       m[k][2] = GetValue(nodes, ReachedNode(alphabet, nodes, input,
                                                            index, m[k][1] + 1 - index))
                /\ (m # <<>> /\ Pulled.kind # "UnknownChar") =>
                       /\ Pulled.kind = "Token"
                       /\ \A k \in DOMAIN m : m[k][1] <= index' - 1
                       /\ \E k \in DOMAIN m :
                              m[k][1] = index' - 1 /\ m[k][2] = Pulled.value
                /\ (m = <<>> /\ Pulled.kind # "UnknownChar") =>
                       Pulled.kind \in {"UnexpectedEnd", "EndOfIteration"} ]_vars

\* C36 witness: the pull from cursor 0 over three bytes recorded two
\* candidates, the prefixes of length 1 and 3 with different values, and
\* emitted the second.
C36_Witness ==
    /\ iterLive
    /\ Len(input) = 3
    /\ Len(items) = 1
    /\ LET m == IterNext(alphabet, nodes, input, 0).matches
       IN  /\ Len(m) = 2
           /\ m[1][1] = 0 /\ m[2][1] = 2
           /\ m[1][2] # m[2][2]
           /\ items[1] = Token(m[2][2], input)
    /\ index = 3

====
